---- MODULE Spec2Model ----
(***************************************************************************)
(* Model of server/routes/query_assist/routes.ts: the two query-assist     *)
(* route handlers registered by registerQueryAssistRoutes.                 *)
(*                                                                         *)
(* A JavaScript string is a sequence of one-character strings, so that     *)
(* the regular-expression replacements and the matchAll scan are computed  *)
(* character by character as the engine computes them.                     *)
(***************************************************************************)
EXTENDS Integers, Sequences, FiniteSets, TLC

VARIABLES
    config,      \* config.query_assist: the three agent ids (routes.ts:36-40)
    pc,          \* where the handler of the current request is suspended
    route,       \* which route the current request was posted to
    body,        \* request.body of the current request
    calls,       \* downstream calls issued so far for the current request, in order
    mappings,    \* promise of client.indices.getMapping (routes.ts:144)
    sampleDoc,   \* promise of client.search (routes.ts:145)
    agentReply,  \* what the agent execution call settled with
    completions, \* the downstream calls that have settled, in the order they settled
    responses    \* responses the handler returned for the current request

vars == <<config, pc, route, body, calls, mappings, sampleDoc, agentReply, completions,
          responses>>

(***************************************************************************)
(* Bounds of the model.                                                    *)
(***************************************************************************)
\* the ppl strings the agent returns are concatenations of at most this many chunks
MaxPplChunks == 3
\* the same, where the five steps are applied in every order
MaxOrderChunks == 2
\* the output[1].result strings are concatenations of at most this many chunks
MaxQuestionChunks == 4

(***************************************************************************)
(* Strings.                                                                *)
(***************************************************************************)
RECURSIVE Concat(_)
Concat(ss) == IF ss = <<>> THEN <<>> ELSE Head(ss) \o Concat(Tail(ss))

\* all concatenations of at most n chunks drawn from chunks
ChunkStrings(chunks, n) ==
    { Concat(ss) : ss \in UNION { [1..k -> chunks] : k \in 0..n } }

\* does pat occur in s starting at index i
MatchAt(s, i, pat) ==
    /\ i + Len(pat) - 1 <= Len(s)
    /\ \A k \in 1..Len(pat) : s[i + k - 1] = pat[k]

Contains(s, pat) == \E i \in 1..Len(s) : MatchAt(s, i, pat)

UpperLetters == <<"A","B","C","D","E","F","G","H","I","J","K","L","M",
                  "N","O","P","Q","R","S","T","U","V","W","X","Y","Z">>
LowerLetters == <<"a","b","c","d","e","f","g","h","i","j","k","l","m",
                  "n","o","p","q","r","s","t","u","v","w","x","y","z">>
Digits == {"0","1","2","3","4","5","6","7","8","9"}

Range(f) == { f[i] : i \in DOMAIN f }

\* \w of the regular-expression engine: [A-Za-z0-9_]
IsWordChar(c) == c \in Range(UpperLetters) \cup Range(LowerLetters) \cup Digits \cup {"_"}

\* the white space String.prototype.trim removes (the part of it the inputs use)
IsWhiteSpace(c) == c \in {" ", "\t", "\n", "\r", "\f"}

ToUpper(c) ==
    IF c \in Range(LowerLetters)
    THEN UpperLetters[CHOOSE i \in DOMAIN LowerLetters : LowerLetters[i] = c]
    ELSE c

ISNOTNULL == <<"I","S","N","O","T","N","U","L","L">>
isnotnull == <<"i","s","n","o","t","n","u","l","l">>
SPANParen == <<"S","P","A","N","(">>
spanParen == <<"s","p","a","n","(">>
\* the grave accent: TLA+ strings cannot hold the character itself, so its code point names it
Backtick  == "U+0060"

(***************************************************************************)
(* The normalisation of the generated query, routes.ts:85-90.              *)
(***************************************************************************)
\* .replace(/[\r\n]/g, SPACE), routes.ts:86
ReplaceCRLF(s) == [i \in 1..Len(s) |-> IF s[i] \in {"\r", "\n"} THEN " " ELSE s[i]]

\* a variant of trim that removes blanks only
TrimSpacesOnly(s) ==
    IF \A i \in 1..Len(s) : s[i] = " " THEN <<>>
    ELSE LET first == CHOOSE i \in 1..Len(s) :
                        s[i] # " " /\ \A j \in 1..(i-1) : s[j] = " "
             last  == CHOOSE i \in 1..Len(s) :
                        s[i] # " " /\ \A j \in (i+1)..Len(s) : s[j] = " "
         IN SubSeq(s, first, last)

\* .trim(), routes.ts:87
Trim(s) ==
    IF \A i \in 1..Len(s) : IsWhiteSpace(s[i]) THEN <<>>
    ELSE LET first == CHOOSE i \in 1..Len(s) :
                        ~IsWhiteSpace(s[i]) /\ \A j \in 1..(i-1) : IsWhiteSpace(s[j])
             last  == CHOOSE i \in 1..Len(s) :
                        ~IsWhiteSpace(s[i]) /\ \A j \in (i+1)..Len(s) : IsWhiteSpace(s[j])
         IN SubSeq(s, first, last)

\* a global replace of a literal pattern: left to right, matches do not overlap
RECURSIVE ReplaceAllFrom(_, _, _, _)
ReplaceAllFrom(s, i, pat, rep) ==
    IF i > Len(s) THEN <<>>
    ELSE IF MatchAt(s, i, pat) THEN rep \o ReplaceAllFrom(s, i + Len(pat), pat, rep)
    ELSE <<s[i]>> \o ReplaceAllFrom(s, i + 1, pat, rep)

\* a replace without the g flag: the first match only
RECURSIVE ReplaceFirstFrom(_, _, _, _)
ReplaceFirstFrom(s, i, pat, rep) ==
    IF i > Len(s) THEN <<>>
    ELSE IF MatchAt(s, i, pat) THEN rep \o SubSeq(s, i + Len(pat), Len(s))
    ELSE <<s[i]>> \o ReplaceFirstFrom(s, i + 1, pat, rep)

ReplaceFirstISNOTNULL(s) == ReplaceFirstFrom(s, 1, ISNOTNULL, isnotnull)

\* .replace(/ISNOTNULL/g, isnotnull), routes.ts:88
ReplaceISNOTNULL(s) == ReplaceAllFrom(s, 1, ISNOTNULL, isnotnull)

KeepBackticks(s) == s

\* .replace(/BACKTICK/g, EMPTY), routes.ts:89
RemoveBackticks(s) == SelectSeq(s, LAMBDA c : c # Backtick)

\* \b before a word character: the start of the string, or a non-word character before it
WordBoundaryBefore(s, i) == i = 1 \/ ~IsWordChar(s[i - 1])

RECURSIVE ReplaceSPANFrom(_, _)
ReplaceSPANFrom(s, i) ==
    IF i > Len(s) THEN <<>>
    ELSE IF WordBoundaryBefore(s, i) /\ MatchAt(s, i, SPANParen)
         THEN spanParen \o ReplaceSPANFrom(s, i + Len(SPANParen))
    ELSE <<s[i]>> \o ReplaceSPANFrom(s, i + 1)

\* .replace(/\bSPAN\(/g, span-paren), routes.ts:90
ReplaceSPAN(s) == ReplaceSPANFrom(s, 1)

\* the chain of routes.ts:85-90, in the order of the source
Normalize(s) ==
    ReplaceSPAN(RemoveBackticks(ReplaceISNOTNULL(Trim(ReplaceCRLF(s)))))

(***************************************************************************)
(* The extraction of the suggested questions, routes.ts:161-165.           *)
(***************************************************************************)
OpenTag  == <<"<","q","u","e","s","t","i","o","n",">">>
CloseTag == <<"<","/","q","u","e","s","t","i","o","n",">">>

\* the line terminators the dot of a regular expression does not match;
\* U+2028 and U+2029 are named by their code points
LineTerminators == {"\n", "\r", "U+2028", "U+2029"}

\* (.|[\r\n])
InnerChar(c) == c \notin LineTerminators \/ c \in {"\r", "\n"}

\* the positions at which </question> can end a match opened at p: the group
\* ((.|[\r\n])+?) takes at least one character
CloseCandidates(s, p) ==
    { q \in (p + Len(OpenTag) + 1)..Len(s) :
        /\ MatchAt(s, q, CloseTag)
        /\ \A k \in (p + Len(OpenTag))..(q - 1) : InnerChar(s[k]) }

Min(S) == CHOOSE x \in S : \A y \in S : x <= y

\* matchAll with the g flag, scanning from index i; the lazy quantifier stops at
\* the first candidate; each match yields its capture group 1 (.map of line 165)
RECURSIVE MatchAllFrom(_, _)
MatchAllFrom(s, i) ==
    IF i > Len(s) THEN <<>>
    ELSE IF MatchAt(s, i, OpenTag) /\ CloseCandidates(s, i) # {}
         THEN LET q == Min(CloseCandidates(s, i))
              IN <<SubSeq(s, i + Len(OpenTag), q - 1)>> \o MatchAllFrom(s, q + Len(CloseTag))
    ELSE MatchAllFrom(s, i + 1)

SuggestedQuestions(text) == MatchAllFrom(text, 1)

(***************************************************************************)
(* Values exchanged with the downstream services.                          *)
(***************************************************************************)
\* an agent id of the configuration; the empty string stands for an id that
\* is not configured (undefined and the empty string are both falsy)
NotConfigured == ""
Falsy(id) == id = NotConfigured

Configs ==
    [ppl_agent_id : {NotConfigured, "ppl-agent"},
     response_summary_agent_id : {NotConfigured, "response-agent"},
     error_summary_agent_id : {NotConfigured, "error-agent"}]

AllConfigured ==
    [ppl_agent_id |-> "ppl-agent",
     response_summary_agent_id |-> "response-agent",
     error_summary_agent_id |-> "error-agent"]

\* routes.ts:17-27
AGENT_REQUEST_OPTIONS == [requestTimeout |-> 5 * 60 * 1000, maxRetries |-> 0]

\* client.transport.request of routes.ts:66-78, 132-141, 148-157
AgentCall(agentId, parameters) ==
    [api |-> "transport.request", method |-> "POST",
     path |-> <<"agents", agentId, "_execute">>,
     parameters |-> parameters, options |-> AGENT_REQUEST_OPTIONS]

\* client.indices.getMapping({ index }), routes.ts:144
GetMappingCall(index) == [api |-> "indices.getMapping", index |-> index]

\* client.search({ index, size: 1 }), routes.ts:145
SearchCall(index) == [api |-> "search", index |-> index, size |-> 1]

IsAgentCall(c) == c.api = "transport.request"
Count(seq, P(_)) == Cardinality({ i \in DOMAIN seq : P(seq[i]) })

\* a promise of a downstream call
Unissued      == [state |-> "none",      value |-> "undefined", reason |-> "undefined"]
Pending       == [state |-> "pending",   value |-> "undefined", reason |-> "undefined"]
Fulfilled(v)  == [state |-> "fulfilled", value |-> v,           reason |-> "undefined"]
Rejected(e)   == [state |-> "rejected",  value |-> "undefined", reason |-> e]

\* errors the downstream client raises: some carry a statusCode, some do not
DownstreamErrors ==
    { [name |-> "ResponseError", statusCode |-> 503, message |-> "Service Unavailable"],
      [name |-> "ResponseError", statusCode |-> 404, message |-> "index_not_found_exception"],
      [name |-> "TimeoutError", message |-> "Request timed out"] }

\* errors raised inside the handlers
ErrorOf(message)     == [name |-> "Error", message |-> message]
TypeErrorOf(message) == [name |-> "TypeError", message |-> message]
SyntaxErrorOf(message) == [name |-> "SyntaxError", message |-> message]

PplNotFoundMessage     == "Generated PPL query not found."
SummaryNotFoundMessage == "Generated summary not found."
PplAgentMissingMessage ==
    "PPL agent not found in opensearch_dashboards.yml. Expected observability.query_assist.ppl_agent_id"
SummaryAgentMissingMessage ==
    "Summary agent not found in opensearch_dashboards.yml. Expected observability.query_assist.response_summary_agent_id and observability.query_assist.error_summary_agent_id"
UndefinedReadMessage == "Cannot read properties of undefined"
NullReadMessage      == "Cannot read properties of null"
JsonSyntaxMessage    == "Unexpected token in JSON"

\* the text of output[0].result of the PPL agent: JSON text is kept as the value
\* it denotes, text that is no JSON as such, and the empty string apart
EmptyText     == [kind |-> "empty"]
MalformedText == [kind |-> "malformed"]
JsonText(v)   == [kind |-> "json", value |-> v]
JsonNull      == [type |-> "null"]
JsonObject(m) == [type |-> "object", members |-> m]

\* JSON.stringify(_response), routes.ts:128
JSONStringify(v) == JsonText(v)

\* the outcome of evaluating a block: a value, or a thrown error
Return(v) == [threw |-> FALSE, value |-> v]
Throw(e)  == [threw |-> TRUE, error |-> e]

\* JSON.parse, routes.ts:81
JSONParse(text) ==
    IF text.kind = "json" THEN Return(text.value) ELSE Throw(SyntaxErrorOf(JsonSyntaxMessage))

\* a response body is plain text, or an object
TextBody(t) == [text |-> t]

\* response.ok and response.custom
ResponseOk(b)           == [type |-> "ok", statusCode |-> 200, body |-> b]
ResponseCustom(code, b) == [type |-> "custom", statusCode |-> code, body |-> b]

DefaultErrorStatus == 500
ConfigErrorStatus  == 400

AlwaysDefaultStatus(error) == DefaultErrorStatus

\* error.statusCode || 500, routes.ts:94 and 174
StatusCodeOf(error) ==
    IF "statusCode" \in DOMAIN error /\ error.statusCode # 0
    THEN error.statusCode ELSE DefaultErrorStatus

\* the catch blocks, routes.ts:92-97 and 172-177
Catch(error) == ResponseCustom(StatusCodeOf(error), TextBody(error.message))

(***************************************************************************)
(* Inputs: request bodies and what the downstream services answer.         *)
(***************************************************************************)
GenerateBodies == [index : {"logs"}, question : {"how many errors"}]

SummarizeBodies ==
    [index : {"logs"}, question : {"how many errors"},
     query : {"undefined", "source = logs"}, response : {"rows"}, isError : BOOLEAN]

NoBody == [index |-> "undefined"]

Envelope(outputs) == [inference_results |-> <<[output |-> outputs]>>]

\* the chunks the generated ppl strings are made of
PplChunks ==
    { ISNOTNULL, <<"I","S","N","O","T">>, <<"N","U","L","L">>,
      <<"I","s","N","o","t","N","u","l","l">>, SPANParen,
      <<"x">>, <<Backtick>>, <<" ">>, <<"\n">>, <<"\r">> }

PplStrings(n) == ChunkStrings(PplChunks, n)

\* the same chunks, and a backtick followed by a blank
OrderChunks == PplChunks \cup { <<Backtick, " ">> }

PplResults(strings) ==
    { EmptyText, MalformedText, JsonText(JsonNull),
      JsonText(JsonObject([executionResult |-> "rows"])) }
    \cup { JsonText(JsonObject([ppl |-> t, executionResult |-> "rows"])) : t \in strings }

\* envelopes of the PPL agent: with and without a result at inference_results[0].output[0]
PplEnvelopes(strings) ==
    { [inference_results |-> <<>>], Envelope(<<>>), Envelope(<<[name |-> "response"]>>) }
    \cup { Envelope(<<[name |-> "response", result |-> r]>>) : r \in PplResults(strings) }

\* the chunks the output[1].result strings are made of
QuestionChunks == { OpenTag, CloseTag, <<"A", "?">>, <<"\n">>, <<" ">> }

QuestionTexts(n) == ChunkStrings(QuestionChunks, n)

SummaryText == <<"o", "k">>

FirstOutputs == { [name |-> "response"], [name |-> "response", result |-> <<>>],
                  [name |-> "response", result |-> SummaryText] }

SecondOutputs(texts) ==
    { [name |-> "questions"] } \cup { [name |-> "questions", result |-> t] : t \in texts }

\* envelopes of the summary agents: output[0] with and without a result, output[1]
\* absent, without a result, or with a text
SummaryEnvelopes(texts) ==
    { [inference_results |-> <<>>], Envelope(<<>>) }
    \cup { Envelope(<<o>>) : o \in FirstOutputs }
    \cup { Envelope(<<o, p>>) : o \in FirstOutputs, p \in SecondOutputs(texts) }

MappingResults == {"mapping-a", "mapping-b"}
SampleResults  == {"doc-a", "doc-b"}

\* generateFieldContext(mappings, sampleDoc): the field context is a text
\* derived from the mapping and from the sample document
GenerateFieldContext(m, d) == <<"fields", m, d>>

(***************************************************************************)
(* The bodies of the two try blocks, after the awaited agent call.         *)
(***************************************************************************)
\* is there a truthy string at o.result
HasText(o, empty) == "result" \in DOMAIN o /\ o.result # empty

\* routes.ts:79-91
GeneratePplTail(envelope) ==
    LET results == envelope.inference_results IN
    IF Len(results) = 0 \/ Len(results[1].output) = 0
    THEN Throw(TypeErrorOf(UndefinedReadMessage))
    ELSE LET o == results[1].output[1] IN
         IF ~HasText(o, EmptyText) THEN Throw(ErrorOf(PplNotFoundMessage))
         ELSE LET parsed == JSONParse(o.result) IN
              IF parsed.threw THEN parsed
              ELSE IF parsed.value.type = "null"
                   THEN Throw(TypeErrorOf(NullReadMessage))
              ELSE IF "ppl" \notin DOMAIN parsed.value.members
                   THEN Throw(TypeErrorOf(UndefinedReadMessage))
              ELSE Return(ResponseOk(TextBody(Normalize(parsed.value.members.ppl))))

\* routes.ts:159-171
SummarizeTail(envelope) ==
    LET results == envelope.inference_results IN
    IF Len(results) = 0 \/ Len(results[1].output) = 0
    THEN Throw(TypeErrorOf(UndefinedReadMessage))
    ELSE LET output == results[1].output
             text   == IF Len(output) >= 2 /\ HasText(output[2], <<>>)
                       THEN output[2].result ELSE <<>>
         IN IF ~HasText(output[1], <<>>) THEN Throw(ErrorOf(SummaryNotFoundMessage))
            ELSE Return(ResponseOk([summary |-> output[1].result,
                                    suggestedQuestions |-> SuggestedQuestions(text)]))

\* try { ... } catch (error) { ... }: the response of the handler
Respond(outcome) == IF outcome.threw THEN Catch(outcome.error) ELSE outcome.value

(***************************************************************************)
(* The state machine: one request at a time is followed from its arrival   *)
(* to its response; requests share nothing but the configuration.          *)
(***************************************************************************)
Init ==
    /\ config \in Configs
    /\ pc = "idle"
    /\ route = "none"
    /\ body = NoBody
    /\ calls = <<>>
    /\ mappings = Unissued
    /\ sampleDoc = Unissued
    /\ agentReply = Unissued
    /\ completions = <<>>
    /\ responses = <<>>

\* !pplAgentId, routes.ts:57
PplAgentMissing == Falsy(config.ppl_agent_id)

SummaryAgentsBothMissing ==
    Falsy(config.response_summary_agent_id) /\ Falsy(config.error_summary_agent_id)

\* !responseSummaryAgentId || !ErrorSummaryAgentId, routes.ts:119
SummaryAgentsMissing ==
    Falsy(config.response_summary_agent_id) \/ Falsy(config.error_summary_agent_id)

ErrorBranchInverted(b) == ~b.isError

\* the else branch of if (!isError), routes.ts:131 and 142
ErrorBranch(b) == b.isError

EitherFulfilled(m, d) == m.state = "fulfilled" \/ d.state = "fulfilled"

\* Promise.all fulfils when both promises have fulfilled, routes.ts:143-146
AllFulfilled(m, d) == m.state = "fulfilled" /\ d.state = "fulfilled"

\* the GENERATE_PPL handler up to its first await, routes.ts:52-78
GeneratePpl(b) ==
    /\ pc = "idle"
    /\ route' = "GENERATE_PPL"
    /\ body' = b
    /\ IF PplAgentMissing
       THEN /\ responses' = Append(responses, ResponseCustom(ConfigErrorStatus, TextBody(PplAgentMissingMessage)))
            /\ pc' = "done"
            /\ UNCHANGED <<calls, agentReply>>
       ELSE /\ calls' = Append(calls, AgentCall(config.ppl_agent_id,
                                   [index |-> b.index, question |-> b.question]))
            /\ agentReply' = Pending
            /\ pc' = "awaitAgent"
            /\ UNCHANGED responses
    /\ UNCHANGED <<config, mappings, sampleDoc, completions>>

\* the agent call of the GENERATE_PPL handler returns an envelope: routes.ts:79-91,
\* and the catch block of routes.ts:92-97 for what that code throws
GeneratePplAgentReturns(envelopes) ==
    /\ pc = "awaitAgent"
    /\ route = "GENERATE_PPL"
    /\ \E envelope \in envelopes :
         /\ agentReply' = Fulfilled(envelope)
         /\ responses' = Append(responses, Respond(GeneratePplTail(envelope)))
    /\ completions' = Append(completions, "transport.request")
    /\ pc' = "done"
    /\ UNCHANGED <<config, route, body, calls, mappings, sampleDoc>>

\* the awaited agent call of either handler rejects: routes.ts:92-97 and 172-177
AgentFails(error) ==
    /\ pc = "awaitAgent"
    /\ agentReply' = Rejected(error)
    /\ responses' = Append(responses, Catch(error))
    /\ completions' = Append(completions, "transport.request")
    /\ pc' = "done"
    /\ UNCHANGED <<config, route, body, calls, mappings, sampleDoc>>

\* the parameters of the two summary agent calls, routes.ts:137 and 153
SummaryParameters(b) ==
    [index |-> b.index, question |-> b.question, query |-> b.query,
     response |-> JSONStringify(b.response)]

ErrorSummaryParameters(b, fields) ==
    [index |-> b.index, question |-> b.question, query |-> b.query,
     response |-> JSONStringify(b.response), fields |-> fields]

\* the SUMMARIZE handler up to its first await, routes.ts:114-146: the two reads
\* of the error branch are both issued before Promise.all is awaited
Summarize(b) ==
    /\ pc = "idle"
    /\ route' = "SUMMARIZE"
    /\ body' = b
    /\ IF SummaryAgentsMissing
       THEN /\ responses' = Append(responses,
                                   ResponseCustom(ConfigErrorStatus, TextBody(SummaryAgentMissingMessage)))
            /\ pc' = "done"
            /\ UNCHANGED <<calls, agentReply, mappings, sampleDoc>>
       ELSE IF ~ErrorBranch(b)
       THEN /\ calls' = Append(calls, AgentCall(config.response_summary_agent_id,
                                                SummaryParameters(b)))
            /\ agentReply' = Pending
            /\ pc' = "awaitAgent"
            /\ UNCHANGED <<responses, mappings, sampleDoc>>
       ELSE /\ calls' = calls \o <<GetMappingCall(b.index), SearchCall(b.index)>>
            /\ mappings' = Pending
            /\ sampleDoc' = Pending
            /\ pc' = "awaitAll"
            /\ UNCHANGED <<responses, agentReply>>
    /\ UNCHANGED <<config, completions>>

\* what the handler does when one of the two reads settles, routes.ts:143-158
\* and 172-177. While the handler waits on Promise.all: the first rejection
\* rejects Promise.all and the catch block answers; the second fulfilment
\* fulfils it and the error summary agent is called. After the handler has
\* left the await, a read that settles changes nothing but its own promise.
AfterSettle(settled, m, d) ==
    IF pc # "awaitAll"
    THEN UNCHANGED <<pc, calls, agentReply, responses>>
    ELSE IF settled.state = "rejected"
    THEN /\ responses' = Append(responses, Catch(settled.reason))
         /\ pc' = "done"
         /\ UNCHANGED <<calls, agentReply>>
    ELSE IF AllFulfilled(m, d)
    THEN /\ calls' = Append(calls,
                AgentCall(config.error_summary_agent_id,
                          ErrorSummaryParameters(body, GenerateFieldContext(m.value, d.value))))
         /\ agentReply' = Pending
         /\ pc' = "awaitAgent"
         /\ UNCHANGED responses
    ELSE UNCHANGED <<pc, calls, agentReply, responses>>

\* client.indices.getMapping settles
GetMappingSettles(settled) ==
    /\ mappings.state = "pending"
    /\ mappings' = settled
    /\ completions' = Append(completions, "indices.getMapping")
    /\ AfterSettle(settled, settled, sampleDoc)
    /\ UNCHANGED <<config, route, body, sampleDoc>>

\* client.search settles
SearchSettles(settled) ==
    /\ sampleDoc.state = "pending"
    /\ sampleDoc' = settled
    /\ completions' = Append(completions, "search")
    /\ AfterSettle(settled, mappings, settled)
    /\ UNCHANGED <<config, route, body, mappings>>

\* the agent call of the SUMMARIZE handler returns an envelope: routes.ts:159-171,
\* and the catch block of routes.ts:172-177 for what that code throws
SummarizeAgentReturns(envelopes) ==
    /\ pc = "awaitAgent"
    /\ route = "SUMMARIZE"
    /\ \E envelope \in envelopes :
         /\ agentReply' = Fulfilled(envelope)
         /\ responses' = Append(responses, Respond(SummarizeTail(envelope)))
    /\ completions' = Append(completions, "transport.request")
    /\ pc' = "done"
    /\ UNCHANGED <<config, route, body, calls, mappings, sampleDoc>>

\* the request is over and the next one arrives: nothing of it is kept
NextRequest ==
    /\ pc = "done"
    /\ pc' = "idle"
    /\ route' = "none"
    /\ body' = NoBody
    /\ calls' = <<>>
    /\ mappings' = Unissued
    /\ sampleDoc' = Unissued
    /\ agentReply' = Unissued
    /\ completions' = <<>>
    /\ responses' = <<>>
    /\ UNCHANGED config

Settlements(values) ==
    { Fulfilled(v) : v \in values } \cup { Rejected(e) : e \in DownstreamErrors }

Next ==
    \/ \E b \in GenerateBodies : GeneratePpl(b)
    \/ GeneratePplAgentReturns(PplEnvelopes(PplStrings(1)))
    \/ \E b \in SummarizeBodies : Summarize(b)
    \/ \E settled \in Settlements(MappingResults) : GetMappingSettles(settled)
    \/ \E settled \in Settlements(SampleResults) : SearchSettles(settled)
    \/ SummarizeAgentReturns(SummaryEnvelopes(QuestionTexts(1)))
    \/ \E error \in DownstreamErrors : AgentFails(error)
    \/ NextRequest

Spec == Init /\ [][Next]_vars

(***************************************************************************)
(* The same handlers with every agent configured, answered by the PPL      *)
(* agent with every ppl string of the bound, and by the summary agent      *)
(* with every output[1].result text of the bound.                          *)
(***************************************************************************)
InitConfigured == Init /\ config = AllConfigured

NextNormalize ==
    \/ \E b \in GenerateBodies : GeneratePpl(b)
    \/ GeneratePplAgentReturns(PplEnvelopes(PplStrings(MaxPplChunks)))
    \/ \E error \in DownstreamErrors : AgentFails(error)
    \/ NextRequest

SpecNormalize == InitConfigured /\ [][NextNormalize]_vars

NextOrder ==
    \/ \E b \in GenerateBodies : GeneratePpl(b)
    \/ GeneratePplAgentReturns(PplEnvelopes(ChunkStrings(OrderChunks, MaxOrderChunks)))
    \/ \E error \in DownstreamErrors : AgentFails(error)
    \/ NextRequest

SpecOrder == InitConfigured /\ [][NextOrder]_vars

NextQuestions ==
    \/ \E b \in SummarizeBodies : ~b.isError /\ Summarize(b)
    \/ SummarizeAgentReturns(SummaryEnvelopes(QuestionTexts(MaxQuestionChunks)))
    \/ \E error \in DownstreamErrors : AgentFails(error)
    \/ NextRequest

SpecQuestions == InitConfigured /\ [][NextQuestions]_vars

(***************************************************************************)
(* What a finished request shows.                                          *)
(***************************************************************************)
Done == pc = "done"

\* the envelope the agent returned, once it has
AgentReturned == agentReply.state = "fulfilled"
ReturnedEnvelope == agentReply.value

\* the envelope holds an output at inference_results[0].output[0]
HasFirstOutput(envelope) ==
    /\ Len(envelope.inference_results) >= 1
    /\ Len(envelope.inference_results[1].output) >= 1

FirstOutput(envelope) == envelope.inference_results[1].output[1]

\* the PPL agent returned JSON text of an object with a ppl member
PplParsed ==
    /\ Done /\ route = "GENERATE_PPL" /\ AgentReturned
    /\ HasFirstOutput(ReturnedEnvelope)
    /\ "result" \in DOMAIN FirstOutput(ReturnedEnvelope)
    /\ FirstOutput(ReturnedEnvelope).result.kind = "json"
    /\ FirstOutput(ReturnedEnvelope).result.value.type = "object"
    /\ "ppl" \in DOMAIN FirstOutput(ReturnedEnvelope).result.value.members

ParsedPpl == FirstOutput(ReturnedEnvelope).result.value.members.ppl

(***************************************************************************)
(* The reference normalisation, written from the wording of the steps.     *)
(***************************************************************************)
RECURSIVE DropLeadingWhiteSpace(_)
DropLeadingWhiteSpace(s) ==
    IF s # <<>> /\ IsWhiteSpace(Head(s)) THEN DropLeadingWhiteSpace(Tail(s)) ELSE s

RECURSIVE DropTrailingWhiteSpace(_)
DropTrailingWhiteSpace(s) ==
    IF s # <<>> /\ IsWhiteSpace(s[Len(s)])
    THEN DropTrailingWhiteSpace(SubSeq(s, 1, Len(s) - 1)) ELSE s

\* the token pat occurs at i: as written, or in any letter case
TokenAt(s, i, pat, ignoreCase) ==
    /\ i + Len(pat) - 1 <= Len(s)
    /\ \A k \in 1..Len(pat) :
         IF ignoreCase THEN ToUpper(s[i + k - 1]) = ToUpper(pat[k]) ELSE s[i + k - 1] = pat[k]

\* SPAN( is a token where no word character precedes it
SpanTokenAt(s, i) == TokenAt(s, i, SPANParen, FALSE) /\ (i > 1 => ~IsWordChar(s[i - 1]))

RECURSIVE RefRewriteIsNotNull(_, _)
RefRewriteIsNotNull(s, ignoreCase) ==
    IF s = <<>> THEN <<>>
    ELSE IF TokenAt(s, 1, ISNOTNULL, ignoreCase)
         THEN isnotnull \o RefRewriteIsNotNull(SubSeq(s, Len(ISNOTNULL) + 1, Len(s)), ignoreCase)
    ELSE <<Head(s)>> \o RefRewriteIsNotNull(Tail(s), ignoreCase)

RECURSIVE RefRewriteSpan(_, _)
RefRewriteSpan(s, i) ==
    IF i > Len(s) THEN <<>>
    ELSE IF SpanTokenAt(s, i) THEN spanParen \o RefRewriteSpan(s, i + Len(SPANParen))
    ELSE <<s[i]>> \o RefRewriteSpan(s, i + 1)

RefNormalize(s, ignoreCase) ==
    LET spaced   == [i \in 1..Len(s) |-> IF s[i] = "\r" \/ s[i] = "\n" THEN " " ELSE s[i]]
        trimmed  == DropTrailingWhiteSpace(DropLeadingWhiteSpace(spaced))
        lowered  == RefRewriteIsNotNull(trimmed, ignoreCase)
        unticked == SelectSeq(lowered, LAMBDA c : c # Backtick)
    IN RefRewriteSpan(unticked, 1)

\* C5 as stated: the 200 body of generate-query is the reference normalisation of
\* the parsed ppl string, with the token ISNOTNULL matched in any letter case.
C5_BodyIsReferenceIgnoringCase ==
    PplParsed => responses = <<ResponseOk(TextBody(RefNormalize(ParsedPpl, TRUE)))>>

\* C5 amended: the 200 body of generate-query is the reference normalisation of the
\* parsed ppl string in which ISNOTNULL is matched case-sensitively: CR and LF
\* become spaces, then the ends are trimmed, then each upper-case ISNOTNULL becomes
\* isnotnull, then the backticks are removed, then each SPAN( that no word
\* character precedes becomes span(.
C5_BodyIsReference ==
    PplParsed => responses = <<ResponseOk(TextBody(RefNormalize(ParsedPpl, FALSE)))>>

\* a query in which every step has something to do has been normalised
C5_Witness ==
    /\ PplParsed
    /\ Contains(ParsedPpl, ISNOTNULL)
    /\ Contains(ParsedPpl, <<Backtick>>)
    /\ Contains(ParsedPpl, <<"\n">>)
    /\ responses[1].body.text # ParsedPpl

(***************************************************************************)
(* The five steps in any order.                                            *)
(***************************************************************************)
Steps == <<"crlf", "trim", "isnotnull", "backtick", "span">>

ApplyStep(k, s) ==
    CASE Steps[k] = "crlf"      -> ReplaceCRLF(s)
      [] Steps[k] = "trim"      -> Trim(s)
      [] Steps[k] = "isnotnull" -> ReplaceISNOTNULL(s)
      [] Steps[k] = "backtick"  -> RemoveBackticks(s)
      [] Steps[k] = "span"      -> ReplaceSPAN(s)

RECURSIVE ApplyOrder(_, _)
ApplyOrder(order, s) ==
    IF order = <<>> THEN s ELSE ApplyOrder(Tail(order), ApplyStep(Head(order), s))

Orders ==
    { o \in [DOMAIN Steps -> DOMAIN Steps] : \A i, j \in DOMAIN Steps : i # j => o[i] # o[j] }

HasBacktick(s) == Contains(s, <<Backtick>>)

\* C6 as stated: applying the five steps in any order gives the body the handler
\* returned, for every parsed ppl string.
C6_AnyOrderSameResult ==
    PplParsed => \A o \in Orders : responses = <<ResponseOk(TextBody(ApplyOrder(o, ParsedPpl)))>>

\* C6 amended: for every parsed ppl string that holds no backtick, applying the
\* five steps in any order gives the body the handler returned.
C6_AnyOrderSameResultWithoutBacktick ==
    (PplParsed /\ ~HasBacktick(ParsedPpl)) =>
        \A o \in Orders : responses = <<ResponseOk(TextBody(ApplyOrder(o, ParsedPpl)))>>

\* a backtick-free query that the trim, the CR/LF step and the SPAN( step all change
C6_Witness ==
    /\ PplParsed
    /\ ~HasBacktick(ParsedPpl)
    /\ ParsedPpl # <<>>
    /\ ParsedPpl[1] = "\n"
    /\ Contains(ParsedPpl, SPANParen)
    /\ Contains(responses[1].body.text, spanParen)

\* C9 as stated: normalising the returned body again leaves it unchanged.
C9_Idempotent ==
    PplParsed => Normalize(responses[1].body.text) = responses[1].body.text

\* C9 amended: for every parsed ppl string that holds no backtick, normalising the
\* returned body again leaves it unchanged.
C9_IdempotentWithoutBacktick ==
    (PplParsed /\ ~HasBacktick(ParsedPpl)) => Normalize(responses[1].body.text) = responses[1].body.text

\* a backtick-free query with two ISNOTNULL tokens and white space at an end
C9_Witness ==
    /\ PplParsed
    /\ ~HasBacktick(ParsedPpl)
    /\ Contains(ParsedPpl, ISNOTNULL \o ISNOTNULL)
    /\ IsWhiteSpace(ParsedPpl[1])
    /\ responses[1].body.text = isnotnull \o isnotnull

(***************************************************************************)
(* The suggested questions.                                                *)
(***************************************************************************)
\* the summary agent returned a summary at inference_results[0].output[0]
SummaryReturned ==
    /\ Done /\ route = "SUMMARIZE" /\ AgentReturned
    /\ HasFirstOutput(ReturnedEnvelope)
    /\ "result" \in DOMAIN FirstOutput(ReturnedEnvelope)
    /\ FirstOutput(ReturnedEnvelope).result # <<>>

ReturnedSummary == FirstOutput(ReturnedEnvelope).result

\* output[1].result, or the empty string when output[1] or its result is absent
QuestionsText ==
    LET output == ReturnedEnvelope.inference_results[1].output IN
    IF Len(output) >= 2 /\ "result" \in DOMAIN output[2] THEN output[2].result ELSE <<>>

\* the closing tags after the opening tag at p
ClosingAfter(s, p) == { q \in (p + Len(OpenTag))..Len(s) : MatchAt(s, q, CloseTag) }

\* the inner texts of the regions of s from index i on, left to right: a region
\* runs from an opening tag to the nearest closing tag after it; a region with
\* nothing inside gives no question
RECURSIVE RegionTexts(_, _)
RegionTexts(s, i) ==
    IF i > Len(s) THEN <<>>
    ELSE IF MatchAt(s, i, OpenTag) /\ ClosingAfter(s, i) # {}
         THEN LET q     == Min(ClosingAfter(s, i))
                  inner == SubSeq(s, i + Len(OpenTag), q - 1)
              IN (IF inner = <<>> THEN <<>> ELSE <<inner>>) \o RegionTexts(s, q + Len(CloseTag))
    ELSE RegionTexts(s, i + 1)

\* C7: on every successful summarize response, suggestedQuestions is the sequence
\* of the inner texts of the question regions of output[1].result, in order, and
\* is empty when output[1] or its result is absent or holds no region.
C7_SuggestedQuestionsAreRegionTexts ==
    SummaryReturned =>
        responses = <<ResponseOk([summary |-> ReturnedSummary,
                                  suggestedQuestions |-> RegionTexts(QuestionsText, 1)])>>

\* C10: no suggested question contains the closing tag.
C10_NoClosingTagInQuestion ==
    (SummaryReturned /\ responses[1].type = "ok") =>
        \A k \in DOMAIN responses[1].body.suggestedQuestions :
            ~Contains(responses[1].body.suggestedQuestions[k], CloseTag)

(***************************************************************************)
(* The handlers and their downstream calls.                                *)
(***************************************************************************)
NoDownstreamCall ==
    /\ calls = <<>>
    /\ completions = <<>>
    /\ mappings.state = "none"
    /\ sampleDoc.state = "none"
    /\ agentReply.state = "none"

SummaryAgentsConfigured ==
    /\ config.response_summary_agent_id # NotConfigured
    /\ config.error_summary_agent_id # NotConfigured

\* C1: with a required agent id not configured the handler answers 400 with its
\* fixed message and issues no downstream call: generate-query without the PPL
\* agent id, summarize without either summary agent id, whatever isError is.
C1_MissingAgentAnswers400 ==
    /\ (route = "GENERATE_PPL" /\ config.ppl_agent_id = NotConfigured) =>
         /\ Done
         /\ responses = <<ResponseCustom(400, TextBody(PplAgentMissingMessage))>>
         /\ NoDownstreamCall
    /\ (route = "SUMMARIZE" /\ ~SummaryAgentsConfigured) =>
         /\ Done
         /\ responses = <<ResponseCustom(400, TextBody(SummaryAgentMissingMessage))>>
         /\ NoDownstreamCall

\* an error summary was asked for while only the error summary agent is missing
C1_Witness ==
    /\ route = "SUMMARIZE" /\ Done
    /\ body.isError
    /\ config.response_summary_agent_id # NotConfigured
    /\ config.error_summary_agent_id = NotConfigured
    /\ responses[1].statusCode = 400

IsGetMappingCall(c) == c.api = "indices.getMapping"
IsSearchCall(c)     == c.api = "search"
Completed(api)      == \E k \in DOMAIN completions : completions[k] = api

\* C2: summarize with both agents configured. Without isError: no mapping fetch,
\* no sample fetch, one call of the response summary agent. With isError: the
\* mapping fetch and the sample fetch are each issued once, both before anything
\* is awaited, and the one call of the error summary agent is issued only after
\* both have completed. No request issues more than one agent call.
C2_SummarizeCalls ==
    /\ Count(calls, IsAgentCall) <= 1
    /\ (route = "SUMMARIZE" /\ SummaryAgentsConfigured /\ ~body.isError) =>
         /\ calls = <<AgentCall(config.response_summary_agent_id, SummaryParameters(body))>>
         /\ mappings.state = "none" /\ sampleDoc.state = "none"
         /\ ~Completed("indices.getMapping") /\ ~Completed("search")
    /\ (route = "SUMMARIZE" /\ SummaryAgentsConfigured /\ body.isError) =>
         /\ Len(calls) >= 2
         /\ calls[1] = GetMappingCall(body.index)
         /\ calls[2] = SearchCall(body.index)
         /\ Count(calls, IsGetMappingCall) = 1 /\ Count(calls, IsSearchCall) = 1
         /\ mappings.state # "none" /\ sampleDoc.state # "none"
         /\ Count(calls, IsAgentCall) = 1 =>
              /\ Len(calls) = 3
              /\ calls[3].path = <<"agents", config.error_summary_agent_id, "_execute">>
              /\ Completed("indices.getMapping") /\ Completed("search")
              /\ mappings.state = "fulfilled" /\ sampleDoc.state = "fulfilled"

\* an error summary that went through both reads and the agent call
C2_Witness ==
    /\ route = "SUMMARIZE" /\ Done /\ body.isError
    /\ Len(calls) = 3
    /\ responses[1].type = "ok"

\* the status code the error carries, if it carries one, and 500 otherwise
CarriedStatus(e) == IF "statusCode" \in DOMAIN e THEN e.statusCode ELSE 500

MappedFrom(e) == ResponseCustom(CarriedStatus(e), TextBody(e.message))

HandlerMessages ==
    { PplNotFoundMessage, SummaryNotFoundMessage, UndefinedReadMessage, NullReadMessage,
      JsonSyntaxMessage }

\* the earliest of the two reads that was rejected
FirstRejectedRead ==
    LET PromiseOf(api) == IF api = "search" THEN sampleDoc ELSE mappings
        k == Min({ i \in DOMAIN completions : PromiseOf(completions[i]).state = "rejected" })
    IN PromiseOf(completions[k])

SomeReadRejected == mappings.state = "rejected" \/ sampleDoc.state = "rejected"

\* C3: every error raised after the configuration check is caught: the request
\* ends with exactly one response, whose status is the status the error carries,
\* or 500 when it carries none, and whose body is the message of the error; no
\* success response is produced on that request.
C3_ErrorsAreMapped ==
    /\ Len(responses) = (IF Done THEN 1 ELSE 0)
    /\ agentReply.state = "rejected" => responses = <<MappedFrom(agentReply.reason)>>
    /\ SomeReadRejected => responses = <<MappedFrom(FirstRejectedRead.reason)>>
    /\ (Done /\ AgentReturned /\ route = "GENERATE_PPL" /\ ~PplParsed) =>
         /\ responses[1].type = "custom"
         /\ responses[1].statusCode = 500
         /\ responses[1].body \in { TextBody(m) : m \in HandlerMessages }
    /\ (Done /\ AgentReturned /\ route = "SUMMARIZE" /\ ~SummaryReturned) =>
         /\ responses[1].type = "custom"
         /\ responses[1].statusCode = 500
         /\ responses[1].body \in { TextBody(m) : m \in HandlerMessages }
    /\ (Done /\ AgentReturned /\ route = "GENERATE_PPL" /\ HasFirstOutput(ReturnedEnvelope)
          /\ "result" \in DOMAIN FirstOutput(ReturnedEnvelope)
          /\ FirstOutput(ReturnedEnvelope).result.kind = "malformed") =>
         responses = <<ResponseCustom(500, TextBody(JsonSyntaxMessage))>>

\* the agent call failed with an error that carries 503
C3_Witness ==
    /\ Done
    /\ agentReply.state = "rejected"
    /\ "statusCode" \in DOMAIN agentReply.reason
    /\ responses[1].statusCode = 503

\* there is no result at inference_results[0].output[0]: the position does not
\* exist, or the output there has no result field
NoResultAtFirstOutput(envelope) ==
    ~HasFirstOutput(envelope) \/ "result" \notin DOMAIN FirstOutput(envelope)

\* C4: when the returned envelope has no result at inference_results[0].output[0],
\* generate-query answers 500 with "Generated PPL query not found." and summarize
\* answers 500 with "Generated summary not found.".
C4_NoResultAnswersNotFound ==
    (Done /\ AgentReturned /\ NoResultAtFirstOutput(ReturnedEnvelope)) =>
        responses = <<ResponseCustom(500, TextBody(IF route = "GENERATE_PPL"
                                                   THEN PplNotFoundMessage
                                                   ELSE SummaryNotFoundMessage))>>

\* C8: in the error summary branch, whichever read completes first: if a read
\* fails, the error summary agent is never called and the request ends with one
\* error response mapped from the failure; if both succeed, the agent is called
\* with the fields derived from both results; the agent is called in no other case.
C8_ReadsAllOrNothing ==
    (route = "SUMMARIZE" /\ SummaryAgentsConfigured /\ body.isError) =>
        /\ SomeReadRejected =>
             /\ Count(calls, IsAgentCall) = 0
             /\ Done
             /\ responses = <<MappedFrom(FirstRejectedRead.reason)>>
        /\ (mappings.state = "fulfilled" /\ sampleDoc.state = "fulfilled") =>
             /\ Len(calls) = 3
             /\ calls[3] = AgentCall(config.error_summary_agent_id,
                              ErrorSummaryParameters(body,
                                  GenerateFieldContext(mappings.value, sampleDoc.value)))
        /\ Count(calls, IsAgentCall) > 0 =>
             mappings.state = "fulfilled" /\ sampleDoc.state = "fulfilled"

\* the sample document arrived before the mapping, and the agent was called
C8_Witness ==
    /\ route = "SUMMARIZE" /\ body.isError
    /\ Len(completions) >= 2
    /\ completions[1] = "search" /\ completions[2] = "indices.getMapping"
    /\ Len(calls) = 3
    /\ calls[3].parameters.fields = GenerateFieldContext("mapping-b", "doc-a")

====
